---- MODULE Spec2Model ----
(***************************************************************************)
(* A model of the YAML splitter of src/datasplit.py: the dependency        *)
(* tracker (YAMLDependencyTracker), the analysis pass and its validation   *)
(* (YAMLSplitter.analyze_structure, _validate_dependencies), the second    *)
(* pass (EventStreamWriter.process_event) and the emitter                  *)
(* (YAMLSplitter.write_split_files), driven by main(); and of the          *)
(* recombiner of src/yaml-tools/core/advanced_yaml_combiner.py             *)
(* (AnchorPreservingCombiner.combine).                                     *)
(*                                                                         *)
(* Python's None is the string "none"; a dict is a function together with  *)
(* the sequence of its keys in insertion order; an event object is the     *)
(* record of its class name, value and anchor, and a buffered event is the *)
(* index of the event in the stream (the object's identity).               *)
(***************************************************************************)
EXTENDS Integers, Sequences, FiniteSets, TLC

\* ---------------------------------------------------------------- bounds

\* Top-level entries of a generated source document.
MaxEntries == 3

\* Documents of a generated multi-document stream (writer specification).
MaxDocs == 2

\* Files of a generated input directory of the recombiner, the anchors file
\* not counted.
MaxFiles == 3

\* ------------------------------------------------------------- universes

None == "none"

\* Top-level keys a generated document uses, in document order.
KeyNames == <<"s1", "s2", "s3", "s4", "s5", "s6">>

\* Section names a mapping may list.
MappedNames == {"s1", "s2", "s3"}

\* Anchor names.
Anchors == {"a", "b"}

\* ---------------------------------------------------------------- events

Ev(t, v, a) == [type |-> t, value |-> v, anchor |-> a]

StreamStart == Ev("StreamStart", None, None)
StreamEnd == Ev("StreamEnd", None, None)
DocumentStart == Ev("DocumentStart", None, None)
DocumentEnd == Ev("DocumentEnd", None, None)
MappingStart(a) == Ev("MappingStart", None, a)
MappingEnd == Ev("MappingEnd", None, None)
SequenceStart(a) == Ev("SequenceStart", None, a)
SequenceEnd == Ev("SequenceEnd", None, None)
Scalar(v, a) == Ev("Scalar", v, a)
Alias(a) == Ev("Alias", None, a)

StructuralTypes == {"StreamStart", "StreamEnd", "DocumentStart", "DocumentEnd"}

\* Python truthiness of an Optional[str].
Truthy(s) == s # None /\ s # ""

\* ------------------------------------------------- generated source documents

\* The value shapes of a top-level entry, by the YAML text they stand for.
Values == {"plain", "def_a", "use_a", "def_b_use_a", "use_b", "scalar_def_a"}

\* The events the parser yields for a value.
ValueEvents(v) ==
    CASE v = "plain" -> <<Scalar("v0", None)>>                      \* v0
      [] v = "def_a" -> <<MappingStart("a"), Scalar("k", None),
                          Scalar("v0", None), MappingEnd>>           \* &a {k: v0}
      [] v = "use_a" -> <<SequenceStart(None), Alias("a"),
                          SequenceEnd>>                              \* [*a]
      [] v = "def_b_use_a" -> <<MappingStart("b"), Scalar("k", None),
                                Alias("a"), MappingEnd>>             \* &b {k: *a}
      [] v = "use_b" -> <<Alias("b")>>                              \* *b
      [] v = "scalar_def_a" -> <<Scalar("v0", "a")>>                \* &a v0

Tag(evs, sec) == [i \in 1..Len(evs) |-> [ev |-> evs[i], sec |-> sec]]

RECURSIVE EntriesTagged(_, _)
EntriesTagged(vals, i) ==
    IF i > Len(vals) THEN <<>>
    ELSE Tag(<<Scalar(KeyNames[i], None)>> \o ValueEvents(vals[i]), KeyNames[i])
         \o EntriesTagged(vals, i + 1)

\* A single document whose root is the mapping  s1: vals[1], s2: vals[2], ...
\* Each event is tagged with the top-level section it belongs to.
MappingDoc(vals) ==
    Tag(<<StreamStart, DocumentStart, MappingStart(None)>>, None)
    \o EntriesTagged(vals, 1)
    \o Tag(<<MappingEnd, DocumentEnd, StreamEnd>>, None)

\* A single document whose root is the scalar v.
ScalarDoc(v) ==
    Tag(<<StreamStart, DocumentStart, Scalar(v, None), DocumentEnd, StreamEnd>>, None)

ValueSeqs == UNION {[1..n -> Values] : n \in 1..MaxEntries}

Documents == {MappingDoc(vals) : vals \in ValueSeqs} \cup {ScalarDoc("s1")}

EventsOf(doc) == [i \in 1..Len(doc) |-> doc[i].ev]
OwnersOf(doc) == [i \in 1..Len(doc) |-> doc[i].sec]

\* ------------------------------------------------------ the YAML library

NodeTypes == {"Scalar", "SequenceStart", "MappingStart"}

\* yaml.load composes the document: an alias must follow a node that carries
\* its anchor (Composer: "found undefined alias"), and the stream must hold a
\* single document.
AliasDefinedBefore(evs, i) ==
    \E j \in 1..(i - 1) : evs[j].type \in NodeTypes /\ evs[j].anchor = evs[i].anchor

UndefinedAliases(evs) ==
    {i \in 1..Len(evs) : evs[i].type = "Alias" /\ ~AliasDefinedBefore(evs, i)}

DocumentCount(evs) == Cardinality({i \in 1..Len(evs) : evs[i].type = "DocumentStart"})

\* A load that composes aliases without looking their anchors up.
LoadError_NoAliasCheck(evs) ==
    IF DocumentCount(evs) > 1 THEN "multiple_documents" ELSE "none"

LoadError(evs) ==
    IF UndefinedAliases(evs) # {} THEN "undefined_alias"
    ELSE IF DocumentCount(evs) > 1 THEN "multiple_documents"
    ELSE "none"

\* The root node of the loaded data is a mapping (a dict).
RootIsMapping(evs) ==
    \E i \in 1..(Len(evs) - 1) :
        evs[i].type = "DocumentStart" /\ evs[i + 1].type = "MappingStart"

\* The scalar keys among the children of the root mapping from event i on, at
\* the given depth, the next child being a key or a value.
RECURSIVE KeysFrom(_, _, _, _)
KeysFrom(evs, i, depth, key) ==
    IF i > Len(evs) THEN {}
    ELSE LET e == evs[i]
             child == depth = 1 /\ e.type \in NodeTypes \cup {"Alias"}
             after == depth + (IF e.type \in {"MappingStart", "SequenceStart"} THEN 1
                               ELSE IF e.type \in {"MappingEnd", "SequenceEnd"} THEN -1
                               ELSE 0)
         IN (IF child /\ key /\ e.type = "Scalar" THEN {e.value} ELSE {})
            \cup KeysFrom(evs, i + 1, after, IF child THEN ~key ELSE key)

\* The keys of the loaded data: the odd children of the root mapping.
TopLevelKeys(evs) == KeysFrom(evs, 1, 0, TRUE)

\* ------------------------------------------------------------------ paths

\* os.path.join("output", path)
JoinOutput(p) ==
    CASE p = "a.yaml" -> "output/a.yaml"
      [] p = "./a.yaml" -> "output/./a.yaml"
      [] p = "b.yaml" -> "output/b.yaml"
      [] p = "c.yaml" -> "output/c.yaml"

\* os.path.abspath: the path made absolute and normalised; an absolute,
\* normalised path is returned as it is.
AbsPath(p) ==
    CASE p \in {"output/a.yaml", "output/./a.yaml"} -> "/cwd/output/a.yaml"
      [] p = "output/b.yaml" -> "/cwd/output/b.yaml"
      [] p = "output/c.yaml" -> "/cwd/output/c.yaml"
      [] OTHER -> p

FileA == "/cwd/output/a.yaml"
FileB == "/cwd/output/b.yaml"
FileC == "/cwd/output/c.yaml"
Files == {FileA, FileB, FileC}

\* File paths as a caller of the tracker may spell them.
RawFiles == {"output/a.yaml", "output/./a.yaml", "output/b.yaml", "output/c.yaml"}

\* ------------------------------------------------------- section mappings

SectionSeq == <<"s1", "s2", "s3">>

\* The content list of output key k when each section s is listed under the
\* output keys assign[s].
ContentOf(assign, k) == SelectSeq(SectionSeq, LAMBDA s : k \in assign[s])

\* file_mapping.json: output key -> {path, content}, in the order of the file.
Mapping(assign, path1, path2) ==
    << [key |-> "k1", path |-> path1, content |-> ContentOf(assign, "k1")],
       [key |-> "k2", path |-> path2, content |-> ContentOf(assign, "k2")] >>

Assignments == [MappedNames -> SUBSET {"k1", "k2"}]

\* Mappings with an entry that has no path, or with two spellings of one file.
OddPaths == {<<"a.yaml", "">>, <<"a.yaml", "./a.yaml">>, <<"", "b.yaml">>}

FileMappings ==
    {Mapping(assign, "a.yaml", "b.yaml") : assign \in Assignments}
    \cup {Mapping([s \in MappedNames |-> IF s = "s1" THEN k1 ELSE {"k2"}], p[1], p[2]) :
              k1 \in {{"k1"}, {"k1", "k2"}}, p \in OddPaths}

EmptyMap == [x \in {} |-> None]

\* d[k] = v on a dict held as a function.
DictSet(d, k, v) == [x \in DOMAIN d \cup {k} |-> IF x = k THEN v ELSE d[x]]

\* The values of a dict.
Range(d) == {d[x] : x \in DOMAIN d}

\* A loop over a content list that lets a later listing replace an earlier one.
AddSections_Overwrite(content, j, file, acc) ==
    [err |-> "none", detail |-> <<>>,
     map |-> [x \in DOMAIN acc \cup {content[n] : n \in 1..Len(content)} |->
                 IF \E n \in 1..Len(content) : content[n] = x THEN file ELSE acc[x]]]

\* The loop building section_to_file: the first entry without a path, or the
\* first section listed twice, raises.
RECURSIVE AddSections(_, _, _, _)
AddSections(content, j, file, acc) ==
    IF j > Len(content) THEN [err |-> "none", detail |-> <<>>, map |-> acc]
    ELSE IF content[j] \in DOMAIN acc
         THEN [err |-> "duplicate_section", detail |-> <<content[j]>>, map |-> acc]
         ELSE AddSections(content, j + 1, file, DictSet(acc, content[j], file))

RECURSIVE BuildSectionToFile(_, _, _)
BuildSectionToFile(fm, k, acc) ==
    IF k > Len(fm) THEN [err |-> "none", detail |-> <<>>, map |-> acc]
    ELSE IF fm[k].path = ""
         THEN [err |-> "missing_path", detail |-> <<fm[k].key>>, map |-> acc]
         ELSE LET r == AddSections(fm[k].content, 1,
                                   AbsPath(JoinOutput(fm[k].path)), acc)
              IN IF r.err # "none" THEN r ELSE BuildSectionToFile(fm, k + 1, r.map)

\* The sections the mapping lists, over all entries in order.
RECURSIVE ListedFrom(_, _)
ListedFrom(fm, k) ==
    IF k > Len(fm) THEN <<>> ELSE fm[k].content \o ListedFrom(fm, k + 1)

ListedSections(fm) == {ListedFrom(fm, 1)[n] : n \in 1..Len(ListedFrom(fm, 1))}

\* The first listed section that is not among keys (there is one).
FirstMissing(fm, keys) ==
    LET l == ListedFrom(fm, 1)
        n == CHOOSE x \in 1..Len(l) : l[x] \notin keys /\ \A y \in 1..(x - 1) : l[y] \in keys
    IN l[n]

\* --------------------------------------------------- YAMLDependencyTracker

NewTracker == [anchor_locations |-> EmptyMap, file_dependencies |-> EmptyMap, keys |-> <<>>]

\* register_anchor replacing the whole dictionary by the one entry.
RegisterAnchor_ForgetOthers(t, anchor_name, file_path) ==
    [t EXCEPT !.anchor_locations = DictSet(EmptyMap, anchor_name, AbsPath(file_path))]

RegisterAnchor(t, anchor_name, source_file) ==
    [t EXCEPT !.anchor_locations = DictSet(@, anchor_name, AbsPath(source_file))]

\* register_alias_usage without the comparison of the two files.
RegisterAliasUsage_NoSelfCheck(t, alias_name, using_file) ==
    LET using == AbsPath(using_file) IN
    IF alias_name \in DOMAIN t.anchor_locations
    THEN [t EXCEPT
            !.file_dependencies =
                DictSet(@, using,
                        (IF using \in DOMAIN @ THEN @[using] ELSE {})
                        \cup {t.anchor_locations[alias_name]}),
            !.keys = IF using \in DOMAIN t.file_dependencies THEN @ ELSE Append(@, using)]
    ELSE t

\* register_alias_usage appending the using file to the keys on every edge.
RegisterAliasUsage_AppendKey(t, alias_name, using_file) ==
    LET using == AbsPath(using_file) IN
    IF alias_name \in DOMAIN t.anchor_locations
       /\ t.anchor_locations[alias_name] # using
    THEN [t EXCEPT
            !.file_dependencies =
                DictSet(@, using,
                        (IF using \in DOMAIN @ THEN @[using] ELSE {})
                        \cup {t.anchor_locations[alias_name]}),
            !.keys = Append(@, using)]
    ELSE t

\* register_alias_usage creating the entry of the using file before its checks.
RegisterAliasUsage_EntryFirst(t, alias_name, using_file) ==
    LET using == AbsPath(using_file)
        t0 == IF using \in DOMAIN t.file_dependencies
              THEN t
              ELSE [t EXCEPT !.file_dependencies = DictSet(@, using, {}),
                             !.keys = Append(@, using)]
    IN
    IF alias_name \in DOMAIN t.anchor_locations
       /\ t.anchor_locations[alias_name] # using
    THEN [t0 EXCEPT
            !.file_dependencies =
                DictSet(@, using, @[using] \cup {t.anchor_locations[alias_name]})]
    ELSE t0

RegisterAliasUsage(t, alias_name, using_file) ==
    LET using == AbsPath(using_file) IN
    IF alias_name \in DOMAIN t.anchor_locations
       /\ t.anchor_locations[alias_name] # using
    THEN [t EXCEPT
            !.file_dependencies =
                DictSet(@, using,
                        (IF using \in DOMAIN @ THEN @[using] ELSE {})
                        \cup {t.anchor_locations[alias_name]}),
            !.keys = IF using \in DOMAIN t.file_dependencies THEN @ ELSE Append(@, using)]
    ELSE t

\* The dependencies of a file: file_dependencies.get(file, []).
DepsOf(t, file) ==
    IF file \in DOMAIN t.file_dependencies THEN t.file_dependencies[file] ELSE {}

\* ------------------------------------------------------------------ state

VARIABLES
    pc,               \* position in main() / analyze_structure / write_split_files
    err,              \* the exception that ended the run: [kind, detail]
    file_mapping,     \* the loaded file_mapping.json
    events,           \* the events the parser yields for pathfinder_data.yaml
    owner,            \* per event, the top-level section it belongs to (from the document)
    section_to_file,  \* analyze_structure's local dict
    context_path,     \* analyze_structure's stack of enclosing sections
    current_section,  \* analyze_structure's current section
    next1,            \* index of the next event of the analysis loop
    tracker,          \* YAMLSplitter.tracker
    unresolved,       \* history of the analysis pass: <<anchor, file>> usages seen while the anchor was not registered
    owed,             \* history of the analysis pass: <<using, defining>> for an unresolved usage whose anchor was registered later
    last_call,        \* history: the latest call of a tracker method
    visited,          \* _validate_dependencies: visited
    path,             \* _validate_dependencies: path
    frames,           \* per active check_circular call, the dependencies its loop has still to take
    outer,            \* index of the next key of the loop over file_dependencies
    plan,             \* the plan analyze_structure returned, or None
    g_section_to_file,\* the module global section_to_file: [bound, map]
    writer,           \* the EventStreamWriter of write_split_files
    next2,            \* index of the next event of the second pass
    next_file,        \* index of the next file of the emitter's loop
    written,          \* the output files opened for writing, in order, with what was written
    combiner,         \* the locals of AnchorPreservingCombiner.combine and its position
    fs,               \* the directory of the split files and the recombiner's output file
    split_run         \* the locals of AnchorPreservingSplitter.split and its position

vars == <<pc, err, file_mapping, events, owner, section_to_file, context_path,
          current_section, next1, tracker, unresolved, owed, last_call, visited, path, frames,
          outer, plan, g_section_to_file, writer, next2, next_file, written,
          combiner, fs, split_run>>

NoError == [kind |-> "none", detail |-> <<>>]

\* main()'s plan before analyze_structure has returned.
NoPlan == [returned |-> FALSE, dependencies |-> EmptyMap]

\* The module defines no global section_to_file: the name is unbound unless
\* a caller binds it.
Unbound == [bound |-> FALSE, map |-> EmptyMap]

\* EventStreamWriter.__init__
NewWriter == [depth |-> 0, current_section |-> None, in_sequence |-> FALSE,
              in_document |-> FALSE, events_by_file |-> EmptyMap, keys |-> <<>>]

\* A text is the sequence of its lines.
NoText == <<>>

\* combine() is not running.
IdleCombiner == [pc |-> "idle", anchor_content |-> NoText, files |-> <<>>,
                 combined_content |-> <<>>, anchor_lines |-> <<>>, next |-> 1,
                 result |-> None]

\* No call of AnchorPreservingSplitter.split.
IdleSplit == [pc |-> "idle", input |-> <<>>, yaml_keys |-> {}, anchors |-> FALSE,
              aliases |-> 0, sections |-> <<>>, next |-> 1]

\* No directory and no output file.
NoFiles == [dir |-> EmptyMap, out |-> [exists |-> FALSE, text |-> <<>>], writes |-> 0]

inputVars == <<file_mapping, events, owner>>
combinerVars == <<combiner, fs, split_run>>
analysisVars == <<section_to_file, context_path, current_section, next1>>
historyVars == <<unresolved, owed, last_call>>
dfsVars == <<visited, path, frames, outer>>
splitVars == <<g_section_to_file, writer, next2, next_file, written>>

InitCommonSplitter ==
    /\ err = NoError
    /\ section_to_file = EmptyMap
    /\ context_path = <<>>
    /\ current_section = None
    /\ next1 = 1
    /\ tracker = NewTracker
    /\ unresolved = {}
    /\ owed = {}
    /\ last_call = [op |-> "none", name |-> None, file |-> None]
    /\ visited = {}
    /\ path = <<>>
    /\ frames = <<>>
    /\ outer = 1
    /\ plan = NoPlan
    /\ next2 = 1
    /\ next_file = 1
    /\ written = <<>>
    /\ g_section_to_file = Unbound
    /\ writer = NewWriter

InitCommon ==
    /\ InitCommonSplitter
    /\ combiner = IdleCombiner
    /\ fs = NoFiles
    /\ split_run = IdleSplit

\* main() has read file_mapping.json and calls analyze_structure.
Init ==
    /\ pc = "analyze"
    /\ file_mapping \in FileMappings
    /\ \E doc \in Documents : events = EventsOf(doc) /\ owner = OwnersOf(doc)
    /\ InitCommon

\* An exception that is logged where it occurs, main() going on to the split.
Raise_AndContinue(kind, detail) ==
    /\ pc' = "split"
    /\ err' = [kind |-> kind, detail |-> detail]

\* An exception leaves analyze_structure or write_split_files; main() logs it.
Raise(kind, detail) ==
    /\ pc' = "failed"
    /\ err' = [kind |-> kind, detail |-> detail]

\* ------------------------------------------------------ analyze_structure

\* Lines 170-185: build section_to_file.
BuildMapping ==
    /\ pc = "analyze"
    /\ LET r == BuildSectionToFile(file_mapping, 1, EmptyMap) IN
       IF r.err # "none"
       THEN /\ Raise(r.err, r.detail)
            /\ UNCHANGED section_to_file
       ELSE /\ pc' = "load"
            /\ section_to_file' = r.map
            /\ UNCHANGED err
    /\ UNCHANGED <<inputVars, combinerVars, context_path, current_section, next1, tracker,
                   historyVars, dfsVars, plan, splitVars>>

\* A load that does not look the mapped sections up in the loaded data.
LoadOutcome_NoSectionCheck(evs, fm) ==
    IF LoadError(evs) # "none" THEN [kind |-> LoadError(evs), detail |-> <<>>]
    ELSE IF ~RootIsMapping(evs) THEN [kind |-> "root_not_dict", detail |-> <<>>]
    ELSE NoError

\* What yaml.load and the checks of the loaded data raise, if anything.
LoadOutcome(evs, fm) ==
    IF LoadError(evs) = "undefined_alias"
    THEN [kind |-> "undefined_alias",
          detail |-> <<evs[CHOOSE n \in UndefinedAliases(evs) :
                              \A m \in UndefinedAliases(evs) : n <= m].anchor>>]
    ELSE IF LoadError(evs) # "none" THEN [kind |-> LoadError(evs), detail |-> <<>>]
    ELSE IF ~RootIsMapping(evs) THEN [kind |-> "root_not_dict", detail |-> <<>>]
    ELSE IF ListedSections(fm) \ TopLevelKeys(evs) # {}
    THEN [kind |-> "section_not_found",
          detail |-> <<FirstMissing(fm, TopLevelKeys(evs))>>]
    ELSE NoError

\* Lines 191-201: load the document, check its root and the mapped sections.
LoadDocument ==
    /\ pc = "load"
    /\ LET r == LoadOutcome(events, file_mapping) IN
       IF r.kind # "none"
       THEN Raise(r.kind, r.detail)
       ELSE /\ pc' = "pass1"
            /\ UNCHANGED err
    /\ UNCHANGED <<inputVars, combinerVars, analysisVars, tracker, historyVars, dfsVars, plan, splitVars>>

\* A context path that is pushed as in the loop and never popped.
ContextAfter_NoPop(e, cp, cs) ==
    IF e.type = "MappingStart" /\ Truthy(cs) THEN Append(cp, cs) ELSE cp

\* Lines 206-220: the context path after the event.
ContextAfter(e, cp, cs) ==
    IF e.type = "MappingStart" /\ Truthy(cs) THEN Append(cp, cs)
    ELSE IF e.type = "MappingEnd" /\ cp # <<>> THEN SubSeq(cp, 1, Len(cp) - 1)
    ELSE cp

\* Lines 206-220: the current section after the event.
SectionAfter(e, cp, cs) ==
    IF e.type = "MappingEnd" /\ cp # <<>> THEN cp[Len(cp)]
    ELSE IF e.type = "Scalar" /\ cp = <<>> THEN e.value
    ELSE cs

\* A call of a tracker method, or none.
NoCall == [op |-> "none", name |-> None, file |-> None]
Call(op, name, file) == [op |-> op, name |-> name, file |-> file]

\* _process_event calling the tracker for the sections the mapping does not list
\* too, with a default file.
EventCall_UnmappedToo(e, cs, stf) ==
    LET file == IF cs \in DOMAIN stf THEN stf[cs] ELSE "output/c.yaml" IN
    IF e.type = "Alias"
    THEN IF Truthy(cs)
         THEN Call("register_alias_usage", e.anchor, file)
         ELSE NoCall
    ELSE IF e.type \in NodeTypes /\ Truthy(e.anchor) /\ Truthy(cs)
    THEN Call("register_anchor", e.anchor, file)
    ELSE NoCall

\* Lines 140-155: the tracker call _process_event makes for the event.
EventCall(e, cs, stf) ==
    IF e.type = "Alias"
    THEN IF Truthy(cs) /\ cs \in DOMAIN stf
         THEN Call("register_alias_usage", e.anchor, stf[cs])
         ELSE NoCall
    ELSE IF e.type \in NodeTypes /\ Truthy(e.anchor) /\ Truthy(cs) /\ cs \in DOMAIN stf
    THEN Call("register_anchor", e.anchor, stf[cs])
    ELSE NoCall

\* The tracker after the call.
ApplyCall(t, c) ==
    CASE c.op = "register_anchor" -> RegisterAnchor(t, c.name, c.file)
      [] c.op = "register_alias_usage" -> RegisterAliasUsage(t, c.name, c.file)
      [] OTHER -> t

\* History of the analysis pass: the usages that found no anchor registered,
\* and the edges a later registration of the anchor for another file owes them.
UnresolvedAfter(c, t) ==
    IF c.op = "register_alias_usage" /\ c.name \notin DOMAIN t.anchor_locations
    THEN unresolved \cup {<<c.name, AbsPath(c.file)>>}
    ELSE unresolved

OwedAfter(c) ==
    IF c.op = "register_anchor"
    THEN owed \cup {<<u[2], AbsPath(c.file)>> :
                        u \in {x \in unresolved : x[1] = c.name /\ x[2] # AbsPath(c.file)}}
    ELSE owed

\* Lines 202-223: one iteration of the analysis loop.
AnalyzeEvent ==
    /\ pc = "pass1"
    /\ next1 <= Len(events)
    /\ LET e == events[next1]
           cs == SectionAfter(e, context_path, current_section)
           c == EventCall(e, cs, section_to_file)
       IN /\ context_path' = ContextAfter(e, context_path, current_section)
          /\ current_section' = cs
          /\ tracker' = ApplyCall(tracker, c)
          /\ unresolved' = UnresolvedAfter(c, tracker)
          /\ owed' = OwedAfter(c)
          /\ last_call' = c
    /\ next1' = next1 + 1
    /\ UNCHANGED <<pc, err, inputVars, combinerVars, section_to_file, dfsVars, plan, splitVars>>

\* Line 226: the context path must be empty after the last event.
AssertContext ==
    /\ pc = "pass1"
    /\ next1 > Len(events)
    /\ IF context_path # <<>>
       THEN Raise("context_not_empty", <<>>)
       ELSE pc' = "validate" /\ UNCHANGED err
    /\ UNCHANGED <<inputVars, combinerVars, analysisVars, tracker, historyVars, dfsVars, plan, splitVars>>

\* -------------------------------------------------- _validate_dependencies

\* Lines 245-256: the assertions on the arguments, then visited = set(), path = [].
ValidateBegin ==
    /\ pc = "validate"
    /\ pc' = "dfs"
    /\ visited' = {}
    /\ path' = <<>>
    /\ frames' = <<>>
    /\ outer' = 1
    /\ UNCHANGED <<err, inputVars, combinerVars, analysisVars, tracker, historyVars, plan, splitVars>>

InPath(file, pth) == \E n \in 1..Len(pth) : pth[n] = file

\* path.index(file)
PathIndex(file, pth) == CHOOSE n \in 1..Len(pth) : pth[n] = file /\ \A m \in 1..(n - 1) : pth[m] # file

\* The report made of the whole path and the repeated file.
CycleOf_WholePath(file, pth) == pth \o <<file>>

\* Line 261: path[path.index(file):] + [file]
CycleOf(file, pth) == SubSeq(pth, PathIndex(file, pth), Len(pth)) \o <<file>>

\* check_circular testing the visited set before the path.
CheckCircularEntry_VisitedFirst(file, pth, vis) ==
    IF file \in vis THEN "return"
    ELSE IF InPath(file, pth) THEN "raise"
    ELSE "descend"

\* check_circular without the test of the visited set.
CheckCircularEntry_NoVisited(file, pth, vis) ==
    IF InPath(file, pth) THEN "raise" ELSE "descend"

\* Lines 260-264: how a call of check_circular(file) starts.
CheckCircularEntry(file, pth, vis) ==
    IF InPath(file, pth) THEN "raise"
    ELSE IF file \in vis THEN "return"
    ELSE "descend"

\* Lines 258-270: a call check_circular(file).
CheckCircular(file, rest) ==
    LET how == CheckCircularEntry(file, path, visited) IN
    /\ IF how = "raise"
       THEN /\ Raise("circular_dependency", CycleOf(file, path))
            /\ UNCHANGED <<path, visited>>
            /\ frames' = rest
       ELSE IF how = "return"
       THEN /\ UNCHANGED <<pc, err, path, visited>>
            /\ frames' = rest
       ELSE /\ UNCHANGED <<pc, err>>
            /\ path' = Append(path, file)
            /\ visited' = visited \cup {file}
            /\ frames' = Append(rest, DepsOf(tracker, file))

\* Lines 279-280: the loop over the keys of file_dependencies calls check_circular.
DfsOuterCall ==
    /\ pc = "dfs"
    /\ frames = <<>>
    /\ outer <= Len(tracker.keys)
    /\ CheckCircular(tracker.keys[outer], frames)
    /\ outer' = outer + 1
    /\ UNCHANGED <<inputVars, combinerVars, analysisVars, tracker, historyVars, plan, splitVars>>

\* Lines 272-274: the loop over deps (a set, in any order) calls check_circular.
DfsInnerCall ==
    /\ pc = "dfs"
    /\ frames # <<>>
    /\ \E dep \in frames[Len(frames)] :
         CheckCircular(dep, [frames EXCEPT ![Len(frames)] = @ \ {dep}])
    /\ UNCHANGED <<outer, inputVars, combinerVars, analysisVars, tracker, historyVars, plan, splitVars>>

\* The return of check_circular without path.pop().
DfsReturn_NoPop ==
    /\ pc = "dfs"
    /\ frames # <<>>
    /\ frames[Len(frames)] = {}
    /\ frames' = SubSeq(frames, 1, Len(frames) - 1)
    /\ UNCHANGED <<pc, err, path, visited, outer, inputVars, combinerVars, analysisVars, tracker,
                   historyVars, plan, splitVars>>

\* Line 276: the loop over deps is over; path.pop() and return.
DfsReturn ==
    /\ pc = "dfs"
    /\ frames # <<>>
    /\ frames[Len(frames)] = {}
    /\ frames' = SubSeq(frames, 1, Len(frames) - 1)
    /\ path' = SubSeq(path, 1, Len(path) - 1)
    /\ UNCHANGED <<pc, err, visited, outer, inputVars, combinerVars, analysisVars, tracker,
                   historyVars, plan, splitVars>>

\* The dependencies that are not output files of the mapping.
DanglingTargets(t, stf) == (UNION Range(t.file_dependencies)) \ Range(stf)

\* Lines 282-286: every dependency must be one of the output files.
ValidateTargets ==
    /\ pc = "dfs"
    /\ frames = <<>>
    /\ outer > Len(tracker.keys)
    /\ IF DanglingTargets(tracker, section_to_file) # {}
       THEN Raise("dependency_nonexistent",
                  <<CHOOSE d \in DanglingTargets(tracker, section_to_file) : TRUE>>)
       ELSE pc' = "validated" /\ UNCHANGED err
    /\ UNCHANGED <<dfsVars, inputVars, combinerVars, analysisVars, tracker, historyVars, plan, splitVars>>

\* Lines 231-238 and main() line 360: analyze_structure returns the plan.
AnalyzeReturn ==
    /\ pc = "validated"
    /\ plan' = [returned |-> TRUE, dependencies |-> tracker.file_dependencies]
    /\ pc' = "split"
    /\ UNCHANGED <<err, inputVars, combinerVars, analysisVars, tracker, historyVars, dfsVars, splitVars>>

\* ------------------------------------------------------- EventStreamWriter

\* Lines 73-104: the writer's tracking fields after the event.
WriterAfterEvent(w, e) ==
    CASE e.type = "StreamStart" ->
            [w EXCEPT !.depth = 0, !.current_section = None,
                      !.in_sequence = FALSE, !.in_document = FALSE]
      [] e.type = "DocumentStart" ->
            [w EXCEPT !.in_document = TRUE,
                      !.depth = IF Truthy(w.current_section) THEN @ ELSE 0]
      [] e.type = "DocumentEnd" -> [w EXCEPT !.in_document = FALSE]
      [] e.type = "SequenceStart" -> [w EXCEPT !.in_sequence = TRUE, !.depth = @ + 1]
      [] e.type = "SequenceEnd" -> [w EXCEPT !.in_sequence = FALSE, !.depth = @ - 1]
      [] e.type = "MappingStart" -> [w EXCEPT !.depth = @ + 1]
      [] e.type = "MappingEnd" -> [w EXCEPT !.depth = @ - 1]
      [] e.type = "Scalar" ->
            IF w.depth = 0 /\ ~w.in_sequence /\ w.in_document
            THEN [w EXCEPT !.current_section = e.value]
            ELSE w
      [] OTHER -> w

\* Lines 124-126: section_to_file.get(section) on the module global.
GetTargetFile(section, g) ==
    IF section \in DOMAIN g.map THEN g.map[section] ELSE None

\* A store that replicates every kept event into all the buffers.
StoreEvent_AllBuffers(w, e, n, target_file) ==
    IF Truthy(target_file)
    THEN LET had == target_file \in DOMAIN w.events_by_file
             keep == e.type \in StructuralTypes \/ w.in_document
             all == DOMAIN w.events_by_file \cup {target_file}
         IN [w EXCEPT
               !.events_by_file =
                   [f \in all |->
                       LET buf == IF f \in DOMAIN w.events_by_file
                                  THEN w.events_by_file[f] ELSE <<>>
                       IN IF keep THEN Append(buf, n) ELSE buf],
               !.keys = IF had THEN @ ELSE Append(@, target_file)]
    ELSE w

\* Lines 111-122: append the event (its index n in the stream) to the target
\* file's buffer.
StoreEvent(w, e, n, target_file) ==
    IF Truthy(target_file)
    THEN LET had == target_file \in DOMAIN w.events_by_file
             buf == IF had THEN w.events_by_file[target_file] ELSE <<>>
             keep == e.type \in StructuralTypes \/ w.in_document
         IN [w EXCEPT
               !.events_by_file = DictSet(@, target_file,
                                          IF keep THEN Append(buf, n) ELSE buf),
               !.keys = IF had THEN @ ELSE Append(@, target_file)]
    ELSE w

\* Lines 288-305: write_split_files creates the writer and opens the source.
BeginSplit ==
    /\ pc = "split"
    /\ pc' = "pass2"
    /\ writer' = NewWriter
    /\ next2' = 1
    /\ UNCHANGED <<err, inputVars, combinerVars, analysisVars, tracker, historyVars, dfsVars,
                   plan, g_section_to_file, next_file, written>>

\* Lines 306-308 with 69-122: one iteration of the second pass.
ProcessEvent ==
    /\ pc = "pass2"
    /\ next2 <= Len(events)
    /\ LET e == events[next2]
           w == WriterAfterEvent(writer, e)
       IN IF Truthy(w.current_section) /\ ~g_section_to_file.bound
          THEN /\ Raise("name_error", <<"section_to_file">>)
               /\ writer' = w
               /\ UNCHANGED next2
          ELSE /\ writer' = StoreEvent(w, e, next2,
                                IF Truthy(w.current_section)
                                THEN GetTargetFile(w.current_section, g_section_to_file)
                                ELSE None)
               /\ next2' = next2 + 1
               /\ UNCHANGED <<pc, err>>
    /\ UNCHANGED <<inputVars, combinerVars, analysisVars, tracker, historyVars, dfsVars, plan,
                   g_section_to_file, next_file, written>>

\* ------------------------------------------------------- write_split_files

\* The lexicographic order of the output paths.
PathRank(f) == CASE f = FileA -> 1 [] f = FileB -> 2 [] f = FileC -> 3

\* The orders in which iterating over a set may yield its elements.
IterationOrders(S) ==
    {q \in [1..Cardinality(S) -> S] : \A x \in S : \E n \in DOMAIN q : q[n] = x}

\* x put into the ascending list q, after the elements that are not greater.
RECURSIVE InsertSorted(_, _)
InsertSorted(x, q) ==
    IF q = <<>> THEN <<x>>
    ELSE IF PathRank(x) < PathRank(Head(q)) THEN <<x>> \o q
    ELSE <<Head(q)>> \o InsertSorted(x, Tail(q))

\* A sort that returns the elements as the iteration yielded them.
SortedList_AsIterated(q) == q

\* sorted(iterable): the elements the iteration yields, in ascending order.
RECURSIVE SortedList(_)
SortedList(q) ==
    IF q = <<>> THEN <<>>
    ELSE InsertSorted(q[Len(q)], SortedList(SubSeq(q, 1, Len(q) - 1)))

\* Lines 321-323: the include line of dep; the output files share a directory.
IncludeLine(dep) ==
    CASE dep = FileA -> "!include a.yaml"
      [] dep = FileB -> "!include b.yaml"
      [] dep = FileC -> "!include c.yaml"

\* The dependency set of a file in the plan's dict, empty without an entry.
PlanDeps(dependencies, output_file) ==
    IF output_file \in DOMAIN dependencies THEN dependencies[output_file] ELSE {}

\* A header that ends with the separator whether or not the file has an entry.
Header_AlwaysSeparator(dependencies, output_file, order) ==
    LET deps == SortedList(order)
    IN [n \in 1..Len(deps) |-> IncludeLine(deps[n])] \o <<"", "---">>

\* Lines 319-324: what is written before the document; order is the order in
\* which the iteration over dependencies[output_file] yields the set.
Header(dependencies, output_file, order) ==
    IF output_file \in DOMAIN dependencies
    THEN LET deps == SortedList(order)
         IN [n \in 1..Len(deps) |-> IncludeLine(deps[n])] \o <<"", "---">>
    ELSE <<>>

\* Line 333: self.yaml.compose(events) is handed a list of events, not a
\* stream: the reader raises YAMLStreamError.
ComposeRaises(buffer) == TRUE

\* Lines 310-338: the next file of the emitter's loop, or the end of the loop.
EmitNext ==
    /\ pc = "pass2"
    /\ next2 > Len(events)
    /\ IF next_file > Len(writer.keys)
       THEN /\ pc' = "done"
            /\ UNCHANGED <<err, next_file, written>>
       ELSE LET f == writer.keys[next_file] IN
            /\ \E order \in IterationOrders(PlanDeps(plan.dependencies, f)) :
                 written' = Append(written,
                                   [file |-> f,
                                    lines |-> Header(plan.dependencies, f, order)])
            /\ IF ComposeRaises(writer.events_by_file[f])
               THEN Raise("stream_error", <<f>>) /\ UNCHANGED next_file
               ELSE next_file' = next_file + 1 /\ UNCHANGED <<pc, err>>
    /\ UNCHANGED <<inputVars, combinerVars, analysisVars, tracker, historyVars, dfsVars, plan,
                   g_section_to_file, writer, next2>>

\* ------------------------------------------------------------------ main()

Next ==
    \/ BuildMapping
    \/ LoadDocument
    \/ AnalyzeEvent
    \/ AssertContext
    \/ ValidateBegin
    \/ DfsOuterCall
    \/ DfsInnerCall
    \/ DfsReturn
    \/ ValidateTargets
    \/ AnalyzeReturn
    \/ BeginSplit
    \/ ProcessEvent
    \/ EmitNext

Spec == Init /\ [][Next]_vars

\* ------------------------------------------- the tracker driven by a caller

\* A caller holds a fresh tracker; every file is an output file.
AllFiles == [s \in MappedNames |->
                CASE s = "s1" -> FileA [] s = "s2" -> FileB [] s = "s3" -> FileC]

InitTracker ==
    /\ pc = "calls"
    /\ file_mapping = <<>>
    /\ events = <<>>
    /\ owner = <<>>
    /\ InitCommon

CallRegisterAnchor ==
    /\ pc = "calls"
    /\ \E n \in Anchors, f \in RawFiles :
         /\ tracker' = RegisterAnchor(tracker, n, f)
         /\ last_call' = Call("register_anchor", n, f)
    /\ UNCHANGED <<pc, err, inputVars, combinerVars, analysisVars, unresolved, owed, dfsVars,
                   plan, splitVars>>

CallRegisterAliasUsage ==
    /\ pc = "calls"
    /\ \E n \in Anchors, f \in RawFiles :
         /\ tracker' = RegisterAliasUsage(tracker, n, f)
         /\ last_call' = Call("register_alias_usage", n, f)
    /\ UNCHANGED <<pc, err, inputVars, combinerVars, analysisVars, unresolved, owed, dfsVars,
                   plan, splitVars>>

\* The caller validates the graph built so far against the output files.
CallValidate ==
    /\ pc = "calls"
    /\ pc' = "validate"
    /\ section_to_file' = AllFiles
    /\ last_call' = NoCall
    /\ UNCHANGED <<err, inputVars, combinerVars, context_path, current_section, next1, tracker,
                   unresolved, owed, dfsVars, plan, splitVars>>

NextTracker ==
    \/ CallRegisterAnchor
    \/ CallRegisterAliasUsage
    \/ CallValidate
    \/ ValidateBegin
    \/ DfsOuterCall
    \/ DfsInnerCall
    \/ DfsReturn
    \/ ValidateTargets

SpecTracker == InitTracker /\ [][NextTracker]_vars

\* A step of _validate_dependencies.
ValidationStep ==
    \/ ValidateBegin
    \/ DfsOuterCall
    \/ DfsInnerCall
    \/ DfsReturn
    \/ ValidateTargets

\* The tracker under a caller that may stop calling at any point, and a
\* validation that, once called, runs on: the program is sequential and
\* _validate_dependencies waits for nothing.
SpecTrackerFair == InitTracker /\ [][NextTracker]_vars /\ WF_vars(ValidationStep)

\* ------------------------------------- the second pass driven by a caller

\* Root nodes of the documents of a generated stream.
RootNodes == {
    <<Scalar("s1", None)>>,                                          \* s1
    <<Scalar("s2", None)>>,                                          \* s2
    <<MappingStart(None), Scalar("s1", None), Scalar("v0", None),
      MappingEnd>>,                                                  \* {s1: v0}
    <<SequenceStart(None), Scalar("s2", None), Alias("a"),
      SequenceEnd>>,                                                 \* [s2, *a]
    <<MappingStart(None), Scalar("k", None), Scalar("v0", "a"),
      MappingEnd>>,                                                  \* {k: &a v0}
    <<MappingStart(None), Scalar("s1", None), MappingStart(None),
      Scalar("k", None), MappingStart(None), Scalar("k", None),
      Scalar("v0", None), MappingEnd, MappingEnd, MappingEnd>>,      \* {s1: {k: {k: v0}}}
    <<SequenceStart(None), MappingStart(None), Scalar("k", None),
      Scalar("v0", None), MappingEnd, SequenceEnd>> }                \* [{k: v0}]

RECURSIVE DocsEvents(_, _)
DocsEvents(roots, n) ==
    IF n > Len(roots) THEN <<>>
    ELSE <<DocumentStart>> \o roots[n] \o <<DocumentEnd>> \o DocsEvents(roots, n + 1)

\* A well-formed stream of one or several documents.
Stream(roots) == <<StreamStart>> \o DocsEvents(roots, 1) \o <<StreamEnd>>

Streams == {Stream(roots) : roots \in UNION {[1..n -> RootNodes] : n \in 1..MaxDocs}}

\* What a caller may bind the module global section_to_file to.
GlobalMaps == {
    [s \in {"s1", "s2"} |-> IF s = "s1" THEN FileA ELSE FileB],
    [s \in {"s1", "s2"} |-> FileA],
    [s \in {"s1"} |-> FileA] }

\* The dependencies of the plan a caller hands to write_split_files.
PlanDependencies == {
    EmptyMap,
    [f \in {FileA} |-> {FileB}],
    [f \in {FileA, FileB} |-> IF f = FileA THEN {FileB, FileC} ELSE {FileC}] }

\* write_split_files has created the writer; the global is bound.
InitWriter ==
    /\ pc = "pass2"
    /\ file_mapping = <<>>
    /\ events \in Streams
    /\ owner = [n \in 1..Len(events) |-> None]
    /\ err = NoError
    /\ \E m \in GlobalMaps :
         /\ g_section_to_file = [bound |-> TRUE, map |-> m]
         /\ section_to_file = m
    /\ context_path = <<>>
    /\ current_section = None
    /\ next1 = 1
    /\ tracker = NewTracker
    /\ unresolved = {}
    /\ owed = {}
    /\ last_call = NoCall
    /\ visited = {}
    /\ path = <<>>
    /\ frames = <<>>
    /\ outer = 1
    /\ \E d \in PlanDependencies : plan = [returned |-> TRUE, dependencies |-> d]
    /\ writer = NewWriter
    /\ next2 = 1
    /\ next_file = 1
    /\ written = <<>>
    /\ combiner = IdleCombiner
    /\ fs = NoFiles
    /\ split_run = IdleSplit

NextWriter ==
    \/ ProcessEvent
    \/ EmitNext

SpecWriter == InitWriter /\ [][NextWriter]_vars

\* ---------------------------------- the analysis loop driven by a caller

BracketTypes == {"MappingStart", "MappingEnd", "SequenceStart", "SequenceEnd"}

\* The sequence without its i-th element.
RemoveAt(q, i) == SubSeq(q, 1, i - 1) \o SubSeq(q, i + 1, Len(q))

\* Streams of one document that lack one start or one end event. The parser
\* yields no such stream: they are what the check of line 226 is written for.
UnbalancedStreams ==
    UNION {{RemoveAt(Stream(<<r>>), i) :
                i \in {j \in 1..Len(Stream(<<r>>)) : Stream(<<r>>)[j].type \in BracketTypes}} :
           r \in RootNodes}

\* The loop of analyze_structure starts on the events of a stream, with the
\* section mapping built.
InitPass1 ==
    /\ pc = "pass1"
    /\ file_mapping = <<>>
    /\ events \in Streams \cup UnbalancedStreams
    /\ owner = [n \in 1..Len(events) |-> None]
    /\ err = NoError
    /\ section_to_file \in GlobalMaps
    /\ context_path = <<>>
    /\ current_section = None
    /\ next1 = 1
    /\ tracker = NewTracker
    /\ unresolved = {}
    /\ owed = {}
    /\ last_call = NoCall
    /\ visited = {}
    /\ path = <<>>
    /\ frames = <<>>
    /\ outer = 1
    /\ plan = NoPlan
    /\ g_section_to_file = Unbound
    /\ writer = NewWriter
    /\ next2 = 1
    /\ next_file = 1
    /\ written = <<>>
    /\ combiner = IdleCombiner
    /\ fs = NoFiles
    /\ split_run = IdleSplit

NextPass1 ==
    \/ AnalyzeEvent
    \/ AssertContext

SpecPass1 == InitPass1 /\ [][NextPass1]_vars

\* ------------------------------------------ AnchorPreservingCombiner.combine

AnchorsName == "00-anchors.yaml"

\* Base names a generated input directory may hold beside the anchors file.
FileNames == {"ability.yaml", "abp.yaml", "abp_node.yaml", "armor.yaml",
              "bonus_attack_progression.yaml", "feat.yaml"}

\* The code points of a base name.
CodePoints(name) ==
    CASE name = "ability.yaml" ->
            <<97, 98, 105, 108, 105, 116, 121, 46, 121, 97, 109, 108>>
      [] name = "abp.yaml" ->
            <<97, 98, 112, 46, 121, 97, 109, 108>>
      [] name = "abp_node.yaml" ->
            <<97, 98, 112, 95, 110, 111, 100, 101, 46, 121, 97, 109, 108>>
      [] name = "armor.yaml" ->
            <<97, 114, 109, 111, 114, 46, 121, 97, 109, 108>>
      [] name = "bonus_attack_progression.yaml" ->
            <<98, 111, 110, 117, 115, 95, 97, 116, 116, 97, 99, 107, 95, 112, 114, 111, 103, 114, 101, 115, 115, 105, 111, 110, 46, 121, 97, 109, 108>>
      [] name = "feat.yaml" ->
            <<102, 101, 97, 116, 46, 121, 97, 109, 108>>

\* Python's order of two strings: by the first code point that differs, a
\* proper prefix first.
RECURSIVE LexLess(_, _)
LexLess(x, y) ==
    IF y = <<>> THEN FALSE
    ELSE IF x = <<>> THEN TRUE
    ELSE IF Head(x) # Head(y) THEN Head(x) < Head(y)
    ELSE LexLess(Tail(x), Tail(y))

\* Lines 54-65.
priority_order == <<
    "bonus_attack_progression.yaml",
    "abp_node_group.yaml",
    "abp_bonus_type.yaml",
    "abp_node.yaml",
    "ability.yaml",
    "ancestry.yaml",
    "bonus_type.yaml",
    "class.yaml",
    "corruption.yaml",
    "corruption_manifestation.yaml" >>

InPriority(basename) == \E n \in 1..Len(priority_order) : priority_order[n] = basename

\* priority_order.index(basename)
PriorityIndex(basename) == CHOOSE n \in 1..Len(priority_order) : priority_order[n] = basename

\* An order of the files by their base names alone.
KeyLess_NameOnly(x, y) == LexLess(CodePoints(x), CodePoints(y))

\* Lines 68-75: sort_key(x) < sort_key(y), the keys being (0, index) for a
\* priority file and (1, basename) for another.
KeyLess(x, y) ==
    IF InPriority(x) /\ InPriority(y) THEN PriorityIndex(x) < PriorityIndex(y)
    ELSE IF InPriority(x) THEN TRUE
    ELSE IF InPriority(y) THEN FALSE
    ELSE LexLess(CodePoints(x), CodePoints(y))

\* x put into the sorted list q behind the elements that are not greater.
RECURSIVE InsertByKey(_, _)
InsertByKey(x, q) ==
    IF q = <<>> THEN <<x>>
    ELSE IF KeyLess(x, Head(q)) THEN <<x>> \o q
    ELSE <<Head(q)>> \o InsertByKey(x, Tail(q))

\* Line 77: files.sort(key=sort_key), a stable sort.
RECURSIVE SortByKey(_)
SortByKey(q) ==
    IF q = <<>> THEN <<>>
    ELSE InsertByKey(q[Len(q)], SortByKey(SubSeq(q, 1, Len(q) - 1)))

\* line.strip()
Strip(line) ==
    CASE line = "  " -> ""
      [] line = "  x: &x v0" -> "x: &x v0"
      [] line = "  x: 1" -> "x: 1"
      [] OTHER -> line

\* not content.strip()
IsBlank(text) == \A n \in 1..Len(text) : Strip(text[n]) = ""

\* The anchors file as the splitter writes it, and one without an anchors key.
AnchorTexts == {
    << "# This file must be loaded first when combining files",
       "anchors:",
       "  x: &x v0",
       "",
       "# Reference counts",
       "references:",
       "  x: 1" >>,
    << "x: &x v0" >> }

\* The texts of the other files: blank, or a section using the anchor.
FileTexts == { <<"  ">>, <<"k:", "  x: *x">> }

\* Line 83: the search for the anchors section finds the key.
AnchorSectionFound(text) == \E n \in 1..Len(text) : Strip(text[n]) = "anchors:"

\* Lines 88-100: the lines captured after the anchors key, up to a blank line.
RECURSIVE CaptureLines(_, _, _)
CaptureLines(text, n, capture) ==
    IF n > Len(text) THEN <<>>
    ELSE IF Strip(text[n]) = "anchors:" THEN CaptureLines(text, n + 1, TRUE)
    ELSE IF capture /\ Strip(text[n]) = "" THEN <<>>
    ELSE IF capture /\ text[n] \notin {"# This file must be loaded first when combining files",
                                        "# Reference counts"}
         THEN <<text[n]>> \o CaptureLines(text, n + 1, capture)
    ELSE CaptureLines(text, n + 1, capture)

\* A piece of combined_content: the leading comment, or the marker and the
\* text of a file.
Piece(kind, name, text) == [kind |-> kind, name |-> name, text |-> text]

\* Line 80.
LeadingComment ==
    Piece("comment", None, <<"# Combined YAML file with preserved anchors/aliases", "">>)

\* Lines 111-112: "# From <basename>", the content and two newlines.
FilePiece(name, text) == Piece("from", name, text \o <<"", "">>)

\* The input directories: up to MaxFiles files, with or without the anchors file.
Directories ==
    UNION {[D \cup A -> AnchorTexts \cup FileTexts] :
              D \in {X \in SUBSET FileNames : Cardinality(X) <= MaxFiles},
              A \in {{}, {AnchorsName}}}

\* The output file before the run: absent, or left by an earlier run.
OutputsBefore == { [exists |-> FALSE, text |-> <<>>],
                   [exists |-> TRUE, text |-> <<LeadingComment>>] }

\* A combine that takes a missing anchors file for an empty one.
AfterAnchorCheck_NoCheck(c, f) ==
    [c EXCEPT !.pc = "glob",
              !.anchor_content = IF AnchorsName \in DOMAIN f.dir
                                 THEN f.dir[AnchorsName] ELSE NoText]

\* Lines 36-43: without the anchors file return False, else read it.
AfterAnchorCheck(c, f) ==
    IF AnchorsName \notin DOMAIN f.dir
    THEN [c EXCEPT !.pc = "returned", !.result = "False"]
    ELSE [c EXCEPT !.pc = "glob", !.anchor_content = f.dir[AnchorsName]]

\* combine(input_dir, output_file) is called.
InitCombiner ==
    /\ pc = "idle"
    /\ file_mapping = <<>>
    /\ events = <<>>
    /\ owner = <<>>
    /\ InitCommonSplitter
    /\ split_run = IdleSplit
    /\ combiner = [IdleCombiner EXCEPT !.pc = "start"]
    /\ \E d \in Directories, o \in OutputsBefore :
         /\ \A n \in DOMAIN d : (n = AnchorsName) <=> (d[n] \in AnchorTexts)
         /\ fs = [dir |-> d, out |-> o, writes |-> 0]

splitterVars == <<pc, err, inputVars, analysisVars, tracker, historyVars, dfsVars,
                  plan, splitVars>>

\* Lines 36-43.
CheckAnchorFile ==
    /\ combiner.pc = "start"
    /\ combiner' = AfterAnchorCheck(combiner, fs)
    /\ UNCHANGED <<fs, split_run, splitterVars>>

\* Lines 46-51: glob yields the *.yaml files in the order of the directory
\* listing; the anchors file is taken out.
ListFiles ==
    /\ combiner.pc = "glob"
    /\ \E listing \in IterationOrders(DOMAIN fs.dir) :
         combiner' = [combiner EXCEPT
                         !.pc = "sort",
                         !.files = SelectSeq(listing, LAMBDA n : n # AnchorsName)]
    /\ UNCHANGED <<fs, split_run, splitterVars>>

\* Lines 53-100: sort the files, start the content, extract the anchor lines.
SortFiles ==
    /\ combiner.pc = "sort"
    /\ combiner' = [combiner EXCEPT
                       !.pc = "read",
                       !.files = SortByKey(@),
                       !.combined_content = <<LeadingComment>>,
                       !.anchor_lines =
                           IF AnchorSectionFound(combiner.anchor_content)
                           THEN CaptureLines(combiner.anchor_content, 1, FALSE)
                           ELSE <<>>,
                       !.next = 1]
    /\ UNCHANGED <<fs, split_run, splitterVars>>

\* Lines 103-112: read the next file and append it unless it is blank.
ReadFile ==
    /\ combiner.pc = "read"
    /\ combiner.next <= Len(combiner.files)
    /\ LET name == combiner.files[combiner.next]
           content == fs.dir[name]
       IN combiner' = [combiner EXCEPT
                          !.next = @ + 1,
                          !.combined_content =
                              IF IsBlank(content) THEN @
                              ELSE Append(@, FilePiece(name, content))]
    /\ UNCHANGED <<fs, split_run, splitterVars>>

\* Lines 114-121: write the output file and return True.
WriteOutput ==
    /\ combiner.pc = "read"
    /\ combiner.next > Len(combiner.files)
    /\ fs' = [fs EXCEPT !.out = [exists |-> TRUE, text |-> combiner.combined_content],
                        !.writes = @ + 1]
    /\ combiner' = [combiner EXCEPT !.pc = "returned", !.result = "True"]
    /\ UNCHANGED <<split_run, splitterVars>>

NextCombiner ==
    \/ CheckAnchorFile
    \/ ListFiles
    \/ SortFiles
    \/ ReadFile
    \/ WriteOutput

SpecCombiner == InitCombiner /\ [][NextCombiner]_vars

\* ------------------------------------------ AnchorPreservingSplitter.split

\* The most top-level entries of a generated input file.
MaxSections == 3

\* Top-level keys of the input file. The key 123 is loaded as an integer.
SectionNames == {"00-anchors", "ability", "armor", "123"}

\* How an entry is written: on one line with its value, or as a key line
\* followed by an indented body that defines the anchor x, uses it, or neither.
Forms == {"inline", "def", "use", "plain"}

\* The input files: up to MaxSections top-level entries with distinct keys.
SplitInputs ==
    UNION {{q \in [1..n -> [key : SectionNames, form : Forms]] :
                \A i, j \in 1..n : i # j => q[i].key # q[j].key} :
           n \in 0..MaxSections}

KeyLine(key) ==
    CASE key = "00-anchors" -> "00-anchors:"
      [] key = "ability" -> "ability:"
      [] key = "armor" -> "armor:"
      [] key = "123" -> "123:"

InlineLine(key) ==
    CASE key = "00-anchors" -> "00-anchors: v0"
      [] key = "ability" -> "ability: v0"
      [] key = "armor" -> "armor: v0"
      [] key = "123" -> "123: v0"

BodyLine(form) ==
    CASE form = "def" -> "  x: &x v0"
      [] form = "use" -> "  y: *x"
      [] form = "plain" -> "  k: v0"

\* The lines of an entry in the input file.
EntryLines(e) ==
    IF e.form = "inline" THEN <<InlineLine(e.key)>>
    ELSE <<KeyLine(e.key), BodyLine(e.form)>>

\* Line 57: the pattern matches a key alone on its line.
MatchesSectionPattern(e) == e.form # "inline"

\* Lines 21-39: an anchor was found, and the number of alias references.
ExtractAnchorsAndAliases(input) ==
    [anchors |-> \E i \in 1..Len(input) : input[i].form = "def",
     aliases |-> Cardinality({i \in 1..Len(input) : input[i].form = "use"})]

\* Line 50: the load raises for an alias whose anchor is not defined before it.
LoadRaises(input) ==
    \E i \in 1..Len(input) :
        /\ input[i].form = "use"
        /\ \A j \in 1..(i - 1) : input[j].form # "def"

\* Line 50: the keys of the loaded mapping that are strings.
LoadedStringKeys(input) == {input[i].key : i \in 1..Len(input)} \ {"123"}

\* Line 57: the lines from entry j on, up to the next key alone on its line.
RECURSIVE UpToNextSection(_, _)
UpToNextSection(input, j) ==
    IF j > Len(input) \/ MatchesSectionPattern(input[j]) THEN <<>>
    ELSE EntryLines(input[j]) \o UpToNextSection(input, j + 1)

\* Lines 54-66: the sections the pattern finds, in the order of the file.
GetTopLevelSections(input) ==
    LET found == SelectSeq([n \in 1..Len(input) |-> n],
                           LAMBDA n : MatchesSectionPattern(input[n]))
    IN  [m \in 1..Len(found) |->
            [key |-> input[found[m]].key,
             content |-> EntryLines(input[found[m]])
                         \o UpToNextSection(input, found[m] + 1)]]

ReferenceLine(count) ==
    CASE count = 1 -> "  x: 1"
      [] count = 2 -> "  x: 2"
      [] count = 3 -> "  x: 3"
      [] count = 4 -> "  x: 4"

\* Lines 70-82: the content of the anchors file.
AnchorsFileContent(anchors, aliases) ==
    << "# YAML Anchor Definitions - Required for Cross-File References",
       "",
       "# This file must be loaded first when combining files",
       "anchors:" >>
    \o (IF anchors THEN <<"  x: &x v0">> ELSE <<>>)
    \o << "", "# Reference counts", "references:" >>
    \o (IF anchors /\ aliases > 0 THEN <<ReferenceLine(aliases)>> ELSE <<>>)

\* Line 108: f"{key}.yaml"
SectionFileName(key) ==
    CASE key = "00-anchors" -> "00-anchors.yaml"
      [] key = "ability" -> "ability.yaml"
      [] key = "armor" -> "armor.yaml"
      [] key = "123" -> "123.yaml"

ReadmeName == "README.md"
ReadmeText == <<"# Split YAML Files with Preserved Anchors">>

InitSplit ==
    /\ pc = "idle"
    /\ file_mapping = <<>>
    /\ events = <<>>
    /\ owner = <<>>
    /\ InitCommonSplitter
    /\ combiner = IdleCombiner
    /\ fs = NoFiles
    /\ \E input \in SplitInputs :
         split_run = [IdleSplit EXCEPT !.pc = "start", !.input = input]

\* Lines 91-95: make the directory, read and parse the input file.
ParseInput ==
    /\ split_run.pc = "start"
    /\ split_run' =
          IF LoadRaises(split_run.input)
          THEN [split_run EXCEPT !.pc = "raised"]
          ELSE [split_run EXCEPT
                   !.pc = "anchors",
                   !.yaml_keys = LoadedStringKeys(split_run.input),
                   !.anchors = ExtractAnchorsAndAliases(split_run.input).anchors,
                   !.aliases = ExtractAnchorsAndAliases(split_run.input).aliases]
    /\ UNCHANGED <<fs, combiner, splitterVars>>

\* Lines 98-103 and 68-87: write the anchors file, then find the sections.
CreateAnchorsFile ==
    /\ split_run.pc = "anchors"
    /\ fs' = [fs EXCEPT !.dir = DictSet(@, AnchorsName,
                            AnchorsFileContent(split_run.anchors, split_run.aliases))]
    /\ split_run' = [split_run EXCEPT !.pc = "sections",
                                      !.sections = GetTopLevelSections(split_run.input),
                                      !.next = 1]
    /\ UNCHANGED <<combiner, splitterVars>>

\* Lines 106-113: write the next section to its file if its key was loaded.
WriteSectionFile ==
    /\ split_run.pc = "sections"
    /\ split_run.next <= Len(split_run.sections)
    /\ LET section == split_run.sections[split_run.next] IN
         fs' = IF section.key \in split_run.yaml_keys
               THEN [fs EXCEPT !.dir = DictSet(@, SectionFileName(section.key),
                                               section.content)]
               ELSE fs
    /\ split_run' = [split_run EXCEPT !.next = @ + 1]
    /\ UNCHANGED <<combiner, splitterVars>>

\* Lines 116-146: write the README and return.
WriteReadme ==
    /\ split_run.pc = "sections"
    /\ split_run.next > Len(split_run.sections)
    /\ fs' = [fs EXCEPT !.dir = DictSet(@, ReadmeName, ReadmeText)]
    /\ split_run' = [split_run EXCEPT !.pc = "done"]
    /\ UNCHANGED <<combiner, splitterVars>>

NextSplit ==
    \/ ParseInput
    \/ CreateAnchorsFile
    \/ WriteSectionFile
    \/ WriteReadme

SpecSplit == InitSplit /\ [][NextSplit]_vars

\* ================================================================ claims

\* The files reachable from the files of S along the edges of file_dependencies.
RECURSIVE ReachableFrom(_, _)
ReachableFrom(t, S) ==
    LET more == S \cup UNION {DepsOf(t, f) : f \in S}
    IN IF more = S THEN S ELSE ReachableFrom(t, more)

\* The files reachable from file by at least one edge.
Reach(t, file) == ReachableFrom(t, DepsOf(t, file))

\* The dependency graph has a directed cycle.
HasCycle(t) == \E f \in DOMAIN t.file_dependencies : f \in Reach(t, f)

SeqElems(q) == {q[n] : n \in 1..Len(q)}

AnalysisErrors == {"missing_path", "duplicate_section", "undefined_alias",
                   "multiple_documents", "root_not_dict", "section_not_found",
                   "context_not_empty", "circular_dependency", "dependency_nonexistent"}

\* C1: the write phase (the second pass and every open of an output file)
\* starts only after analyze_structure has returned its plan, and a run whose
\* analysis raised never enters the write phase nor opens an output file.
C1_WriteOnlyAfterAnalysis ==
    /\ (pc \in {"split", "pass2", "done"} \/ next2 > 1 \/ written # <<>>)
          => plan.returned
    /\ err.kind \in AnalysisErrors
          => (~plan.returned /\ pc = "failed" /\ next2 = 1 /\ written = <<>>
              /\ writer = NewWriter)

\* C1 witness: the second pass is under way after a successful analysis.
C1_Witness == pc = "pass2" /\ next2 > 1 /\ plan.returned

\* C2: _validate_dependencies raises the circular-dependency error exactly
\* when the dependency graph has a directed cycle: the error implies a cycle,
\* and the loop over the files ends without it only on an acyclic graph.
C2_CircularIffCycle ==
    /\ (pc = "failed" /\ err.kind = "circular_dependency") => HasCycle(tracker)
    /\ (pc = "dfs" /\ frames = <<>> /\ outer > Len(tracker.keys)) => ~HasCycle(tracker)
    /\ (pc = "validated" \/ err.kind = "dependency_nonexistent") => ~HasCycle(tracker)

\* C2 witness: a cycle is reported after a file outside it was visited.
C2_Witness ==
    /\ pc = "failed"
    /\ err.kind = "circular_dependency"
    /\ visited \ SeqElems(err.detail) # {}

\* The node an alias event resolves to: the latest earlier node with its anchor.
DefinitionOf(evs, n) ==
    CHOOSE d \in 1..(n - 1) :
        /\ evs[d].type \in NodeTypes /\ evs[d].anchor = evs[n].anchor
        /\ \A m \in (d + 1)..(n - 1) :
              ~(evs[m].type \in NodeTypes /\ evs[m].anchor = evs[n].anchor)

\* The alias events of a mapped section whose anchor is defined in a section
\* mapped to another file.
CrossFileAliases ==
    {n \in 1..Len(events) :
        /\ events[n].type = "Alias"
        /\ AliasDefinedBefore(events, n)
        /\ owner[n] \in DOMAIN section_to_file
        /\ owner[DefinitionOf(events, n)] \in DOMAIN section_to_file
        /\ section_to_file[owner[n]] # section_to_file[owner[DefinitionOf(events, n)]]}

\* C3: after analyze_structure succeeds, the file of every alias reaches the
\* file of the alias's anchor along the edges of file_dependencies.
C3_DependencySoundness ==
    plan.returned =>
        \A n \in CrossFileAliases :
            section_to_file[owner[DefinitionOf(events, n)]]
                \in Reach(tracker, section_to_file[owner[n]])

\* C4: a document with an alias whose anchor is defined nowhere never passes
\* the analysis: once the mapping is built, the run fails with the
\* undefined-alias error that names the anchor.
C4_UndefinedAliasIsFatal ==
    UndefinedAliases(events) # {} =>
        /\ ~plan.returned
        /\ pc \in {"analyze", "load", "failed"}
        /\ (pc = "failed" /\ err.kind \notin {"missing_path", "duplicate_section"})
              => /\ err.kind = "undefined_alias"
                 /\ \E n \in UndefinedAliases(events) : err.detail = <<events[n].anchor>>

\* C4 witness: the run failed with the undefined-alias error.
C4_Witness == pc = "failed" /\ err.kind = "undefined_alias"

\* C5: when the analysis pass ends, every usage seen before its anchor was
\* registered has its edge to the file the anchor was registered for later.
C5_DeferredResolution ==
    (pc = "validate") => \A e \in owed : e[2] \in DepsOf(tracker, e[1])

\* No file is in its own dependency set.
NoSelfDependency ==
    \A f \in DOMAIN tracker.file_dependencies : f \notin tracker.file_dependencies[f]

\* A usage from the file that owns the anchor changes nothing.
OwnerUsageAddsNothing ==
    (/\ pc = "calls"
     /\ last_call'.op = "register_alias_usage"
     /\ last_call'.name \in DOMAIN tracker.anchor_locations
     /\ tracker.anchor_locations[last_call'.name] = AbsPath(last_call'.file))
        => tracker' = tracker

\* C6: after any sequence of register_anchor and register_alias_usage calls no
\* file is in its own dependency set, and a usage from the file that owns the
\* anchor leaves the tracker as it was.
C6_SelfReferenceElision == []NoSelfDependency /\ [][OwnerUsageAddsNothing]_vars

\* C6 witness: the latest call was a usage from the file owning the anchor,
\* spelled differently from the registered path, after edges were recorded.
C6_Witness ==
    /\ last_call.op = "register_alias_usage"
    /\ last_call.name \in DOMAIN tracker.anchor_locations
    /\ tracker.anchor_locations[last_call.name] = AbsPath(last_call.file)
    /\ last_call.file # AbsPath(last_call.file)
    /\ tracker.keys # <<>>

\* The buffer of a file, empty when the writer holds none.
BufferOf(w, f) == IF f \in DOMAIN w.events_by_file THEN w.events_by_file[f] ELSE <<>>

IsContent(n) == events[n].type \notin StructuralTypes

\* The content events of the sections mapped to file f, in source order.
MappedContent(f) ==
    SelectSeq([n \in 1..Len(events) |-> n],
              LAMBDA n : /\ IsContent(n)
                         /\ owner[n] \in DOMAIN section_to_file
                         /\ section_to_file[owner[n]] = f)

\* The second pass has consumed the whole stream.
SecondPassOver == pc \in {"pass2", "done", "failed"} /\ next2 > Len(events)

\* C7: after the second pass, the content events buffered for a file are the
\* content events of the sections mapped to it, each once and in source order.
C7_NoLossPartitioning ==
    SecondPassOver =>
        \A f \in Range(section_to_file) :
            SelectSeq(BufferOf(writer, f), IsContent) = MappedContent(f)

ContentStoredInCurrentFileOnly ==
    (/\ pc = "pass2"
     /\ next2 <= Len(events)
     /\ next2' = next2 + 1
     /\ IsContent(next2))
        => \A f \in Files :
              \/ BufferOf(writer', f) = BufferOf(writer, f)
              \/ /\ BufferOf(writer', f) = Append(BufferOf(writer, f), next2)
                 /\ writer'.in_document
                 /\ Truthy(writer'.current_section)
                 /\ GetTargetFile(writer'.current_section, g_section_to_file) = f

\* C9: a step of the second pass on a content event changes at most the
\* buffer of the file mapped to the section current after the step, by
\* appending the event, and only while a document is open.
C9_ContentOnlyInCurrentFile == [][ContentStoredInCurrentFileOnly]_vars

\* C9 witness: a content event was buffered while another file has a buffer.
C9_Witness ==
    /\ pc = "pass2"
    /\ Len(writer.keys) >= 2
    /\ next2 > 1
    /\ IsContent(next2 - 1)
    /\ \E f \in DOMAIN writer.events_by_file :
          /\ writer.events_by_file[f] # <<>>
          /\ writer.events_by_file[f][Len(writer.events_by_file[f])] = next2 - 1

\* The output paths of the section mapping.
OutputFiles(fm) == {AbsPath(JoinOutput(fm[n].path)) : n \in 1..Len(fm)}

\* C10: a completed run has written a file for every output path of the mapping.
C10_EveryOutputWritten ==
    pc = "done" =>
        \A f \in OutputFiles(file_mapping) : \E n \in 1..Len(written) : written[n].file = f

\* The include lines among the lines written before a document.
IncludeLinesOf(lines) == SelectSeq(lines, LAMBDA l : l \notin {"", "---"})

\* C11: a file is written with an include header exactly when it has a
\* dependency: then one include line per dependency, a blank line and a '---'
\* line; a file without dependencies gets no line at all from the emitter.
C11_IncludeHeader ==
    \A n \in 1..Len(written) :
        LET deps == PlanDeps(plan.dependencies, written[n].file)
            lines == written[n].lines
            k == Cardinality(deps)
        IN IF deps # {}
           THEN /\ Len(lines) = k + 2
                /\ {lines[i] : i \in 1..k} = {IncludeLine(d) : d \in deps}
                /\ lines[k + 1] = ""
                /\ lines[k + 2] = "---"
                /\ Len(IncludeLinesOf(lines)) = k
           ELSE lines = <<>>

\* C11 witness: a file with two dependencies was opened and its header written.
C11_Witness ==
    \E n \in 1..Len(written) :
        /\ Cardinality(PlanDeps(plan.dependencies, written[n].file)) = 2
        /\ Len(written[n].lines) = 4

\* The paths of S in ascending order.
RECURSIVE Ascending(_)
Ascending(S) ==
    IF S = {} THEN <<>>
    ELSE LET m == CHOOSE x \in S : \A y \in S : PathRank(x) <= PathRank(y)
         IN <<m>> \o Ascending(S \ {m})

\* C12: the include lines written for a file are those of its dependency set
\* in ascending order of the paths, whatever order the set was built or is
\* iterated in: the sequence is a function of the set alone.
C12_IncludeOrderDeterministic ==
    \A n \in 1..Len(written) :
        LET asc == Ascending(PlanDeps(plan.dependencies, written[n].file))
        IN IncludeLinesOf(written[n].lines) = [i \in 1..Len(asc) |-> IncludeLine(asc[i])]

\* C12 witness: the header of a file that depends on b.yaml and c.yaml was
\* written, b.yaml first.
C12_Witness ==
    \E n \in 1..Len(written) :
        /\ PlanDeps(plan.dependencies, written[n].file) = {FileB, FileC}
        /\ written[n].lines[1] = IncludeLine(FileB)
        /\ written[n].lines[2] = IncludeLine(FileC)

\* The sections listed in the content of two entries of the mapping.
Duplicated(fm) ==
    {x \in ListedSections(fm) :
        \E i, j \in 1..Len(fm) :
            i < j /\ x \in SeqElems(fm[i].content) /\ x \in SeqElems(fm[j].content)}

\* Every entry of the mapping has a path.
AllPathsGiven(fm) == \A n \in 1..Len(fm) : fm[n].path # ""

\* C13: with a section listed in two entries, analyze_structure never gets to
\* open the document: it fails while building section_to_file, the tracker
\* untouched, and the error is the duplicate-section error naming such a
\* section (an entry without a path is reported first, as a missing path).
C13_DuplicateSectionIsFatal ==
    Duplicated(file_mapping) # {} =>
        /\ pc \in {"analyze", "failed"}
        /\ tracker = NewTracker
        /\ next1 = 1
        /\ ~plan.returned
        /\ pc = "failed" => err.kind \in {"duplicate_section", "missing_path"}
        /\ (pc = "failed" /\ AllPathsGiven(file_mapping)) =>
              /\ err.kind = "duplicate_section"
              /\ err.detail \in {<<x>> : x \in Duplicated(file_mapping)}

\* C13 witness: the run failed on a section listed twice.
C13_Witness ==
    /\ pc = "failed"
    /\ err.kind = "duplicate_section"
    /\ Duplicated(file_mapping) # {}

\* The listed sections that are not top-level keys of the document.
MissingSections == ListedSections(file_mapping) \ TopLevelKeys(events)

\* The mapping builds, and the document loads as a dict.
LoadsAsDict ==
    /\ BuildSectionToFile(file_mapping, 1, EmptyMap).err = "none"
    /\ LoadError(events) = "none"
    /\ RootIsMapping(events)

\* The state before the analysis loop has processed an event: nothing is
\* registered, and the validation has not begun.
BeforeLoop ==
    /\ tracker = NewTracker
    /\ next1 = 1
    /\ visited = {} /\ outer = 1
    /\ ~plan.returned

\* C14: with a listed section that is not a top-level key, analyze_structure
\* fails before the analysis loop and the validation start: the run does not
\* get into the loop, which is entered in the state pc = "pass1", next1 = 1
\* only, and up to there the tracker is untouched; on a mapping that builds
\* and a document that loads as a dict the error is the section-not-found
\* error naming a missing section.
C14_MissingSectionIsFatal ==
    /\ (pc = "pass1" /\ next1 = 1) => MissingSections = {}
    /\ (pc \in {"analyze", "load", "failed"} /\ MissingSections # {}) =>
          /\ BeforeLoop
          /\ (pc = "failed" /\ LoadsAsDict) =>
                /\ err.kind = "section_not_found"
                /\ err.detail \in {<<x>> : x \in MissingSections}

\* C14 witness: the run failed on a missing section of a document that
\* defines an anchor.
C14_Witness ==
    /\ pc = "failed"
    /\ err.kind = "section_not_found"
    /\ \E n \in 1..Len(events) : Truthy(events[n].anchor)

\* The output file is written at most on return, and the outcome of combine
\* follows the presence of the anchors file.
CombineOutcome ==
    /\ combiner.pc # "returned" => fs.writes = 0
    /\ AnchorsName \notin DOMAIN fs.dir =>
          /\ combiner.pc \in {"start", "returned"}
          /\ fs.writes = 0
          /\ combiner.pc = "returned" => combiner.result = "False"
    /\ (AnchorsName \in DOMAIN fs.dir /\ combiner.pc = "returned") =>
          /\ combiner.result = "True"
          /\ fs.writes = 1
          /\ fs.out.exists

\* Without the anchors file no step of combine touches the file system.
MissingAnchorsLeavesFiles == AnchorsName \notin DOMAIN fs.dir => fs' = fs

\* C15: without 00-anchors.yaml combine returns False and the output file is
\* neither created nor modified; with it combine writes the output file, once,
\* and returns True.
C15_CombinePrecondition == []CombineOutcome /\ [][MissingAnchorsLeavesFiles]_vars

\* C15 witness: combine returned False and the output of an earlier run is
\* still there.
C15_Witness ==
    /\ combiner.pc = "returned"
    /\ combiner.result = "False"
    /\ fs.out.exists
    /\ DOMAIN fs.dir # {}

\* The base names of the files whose bodies the text holds, in order.
RECURSIVE BodiesOf(_)
BodiesOf(text) ==
    IF text = <<>> THEN <<>>
    ELSE (IF Head(text).kind = "from" THEN <<Head(text).name>> ELSE <<>>)
         \o BodiesOf(Tail(text))

\* The order of the recombiner: the priority files in the order of the
\* priority list, then the others by base name.
Precedes(x, y) ==
    \/ InPriority(x) /\ InPriority(y) /\ PriorityIndex(x) < PriorityIndex(y)
    \/ InPriority(x) /\ ~InPriority(y)
    \/ ~InPriority(x) /\ ~InPriority(y) /\ LexLess(CodePoints(x), CodePoints(y))

\* C16: the combined output holds the body of every non-blank file other than
\* the anchors file once, the priority files first in the order of the
\* priority list, then the others in ascending order of their base names,
\* whatever order the directory listing had.
C16_CombineOrder ==
    combiner.result = "True" =>
        LET names == BodiesOf(fs.out.text) IN
        /\ SeqElems(names) = {n \in DOMAIN fs.dir \ {AnchorsName} : ~IsBlank(fs.dir[n])}
        /\ \A i, j \in 1..Len(names) : i < j => Precedes(names[i], names[j])

\* C16 witness: an output with two priority files, in the order of the list and
\* against the order of their names, before another file.
C16_Witness ==
    /\ combiner.result = "True"
    /\ BodiesOf(fs.out.text) = <<"abp_node.yaml", "ability.yaml", "abp.yaml">>

\* The lines of a text that define an anchor.
AnchorDefinitions(text) == {text[n] : n \in {m \in 1..Len(text) : Strip(text[m]) = "x: &x v0"}}

\* C17: the combined output holds the anchor definitions of the anchors file
\* before the body of every other file.
C17_AnchorsFirst ==
    combiner.result = "True" =>
        \E n \in 1..Len(fs.out.text) :
            /\ AnchorDefinitions(fs.dir[AnchorsName]) \subseteq SeqElems(fs.out.text[n].text)
            /\ \A m \in 1..Len(fs.out.text) : fs.out.text[m].kind = "from" => n < m

\* C18: in the analysis loop the current section of an event inside a
\* top-level entry (its key, and everything in its value) is the key of that
\* entry: no scalar inside a value changes the current section.
C18_SectionAttribution ==
    (pc = "pass1" /\ next1 > 1 /\ owner[next1 - 1] # None)
        => current_section = owner[next1 - 1]

\* Lines 202-220 over the first n events: the context path and the current
\* section under which _process_event gets event n.
RECURSIVE Pass1After(_, _)
Pass1After(evs, n) ==
    IF n = 0 THEN [context_path |-> <<>>, current_section |-> None]
    ELSE LET before == Pass1After(evs, n - 1) IN
         [context_path |-> ContextAfter(evs[n], before.context_path, before.current_section),
          current_section |-> SectionAfter(evs[n], before.context_path, before.current_section)]

\* C19: the section under which the second pass buckets an event is the
\* section under which the analysis loop processed it.
C19_PassesAttributeAlike ==
    (pc = "pass2" /\ next2 > 1)
        => writer.current_section = Pass1After(events, next2 - 1).current_section

\* Mapping starts and ends are balanced: no end without a start before it,
\* and as many ends as starts.
RECURSIVE MappingDepth(_, _)
MappingDepth(evs, n) ==
    IF n = 0 THEN 0
    ELSE MappingDepth(evs, n - 1)
         + (IF evs[n].type = "MappingStart" THEN 1
            ELSE IF evs[n].type = "MappingEnd" THEN -1 ELSE 0)

Balanced(evs) ==
    /\ \A n \in 1..Len(evs) : MappingDepth(evs, n) >= 0
    /\ MappingDepth(evs, Len(evs)) = 0

\* C20: on a stream with balanced mapping events the context path is never
\* longer than the mappings open, is empty after the last event, and the
\* assertion on it never fails.
C20_ContextEmptyAtEnd ==
    Balanced(events) =>
        /\ pc = "pass1" => Len(context_path) <= MappingDepth(events, next1 - 1)
        /\ (pc = "pass1" /\ next1 > Len(events)) => context_path = <<>>
        /\ err.kind # "context_not_empty"
        /\ pc # "failed"

\* C20 witness: the assertion passed on a stream of two documents with a
\* mapping nested three deep under a section.
C20_Witness ==
    /\ pc = "validate"
    /\ DocumentCount(events) > 1
    /\ \E n \in 1..Len(events) :
          /\ MappingDepth(events, n) = 3
          /\ Len(Pass1After(events, n).context_path) = 2

\* Repeating a usage changes nothing: the tracker after register_alias_usage is a
\* fixed point of the same call.
UsageIdempotent ==
    \A n \in Anchors, f \in RawFiles :
        LET t1 == RegisterAliasUsage(tracker, n, f)
        IN  RegisterAliasUsage(t1, n, f) = t1

\* The edges of a tracker, as pairs <<using, defining>>.
EdgesOf(t) == {e \in Files \X Files : e[2] \in DepsOf(t, e[1])}

\* A usage adds at most the one edge from the using file to the owner of the
\* anchor, and the keys list every file with an entry exactly once.
UsageAddsOneEdge ==
    (pc = "calls" /\ last_call'.op = "register_alias_usage")
        => LET al == tracker.anchor_locations
               u  == AbsPath(last_call'.file)
               new == IF last_call'.name \in DOMAIN al /\ al[last_call'.name] # u
                      THEN {<<u, al[last_call'.name]>>}
                      ELSE {}
           IN  /\ EdgesOf(tracker') = EdgesOf(tracker) \cup new
               /\ Len(tracker'.keys) = Cardinality(DOMAIN tracker'.file_dependencies)
               /\ SeqElems(tracker'.keys) = DOMAIN tracker'.file_dependencies

\* C24: register_alias_usage is idempotent, and usages from file U of anchors
\* owned by file D leave exactly the one edge U -> D, however many they are.
C24_UsageIdempotent == []UsageIdempotent /\ [][UsageAddsOneEdge]_vars

\* C24 witness: the latest call was a usage from a file whose only dependency is
\* a file owning both anchors.
C24_Witness ==
    /\ last_call.op = "register_alias_usage"
    /\ DOMAIN tracker.anchor_locations = Anchors
    /\ \E d \in Files :
         /\ \A n \in Anchors : tracker.anchor_locations[n] = d
         /\ d # AbsPath(last_call.file)
         /\ DepsOf(tracker, AbsPath(last_call.file)) = {d}
         /\ tracker.keys = <<AbsPath(last_call.file)>>

\* Every entry of file_dependencies holds at least one file.
NoEmptyEntry ==
    \A f \in DOMAIN tracker.file_dependencies : tracker.file_dependencies[f] # {}

\* The emitter writes an include header for a file exactly when the file has a
\* dependency, and a header holds at least one include line.
HeaderIffDependency ==
    \A f \in Files :
        \A order \in IterationOrders(PlanDeps(tracker.file_dependencies, f)) :
            LET h == Header(tracker.file_dependencies, f, order)
            IN  /\ (h # <<>>) <=> (DepsOf(tracker, f) # {})
                /\ (h # <<>>) => IncludeLinesOf(h) # <<>>

\* C26: every key of file_dependencies maps to a non-empty set, so the emitter's
\* test "output_file in dependencies" means the file has a dependency and no
\* include header is written without an include line.
C26_NoEmptyDependencyEntry == NoEmptyEntry /\ HeaderIffDependency

\* C26 witness: the latest call was a usage that recorded nothing, from a file
\* without an entry, while another file has one.
C26_Witness ==
    /\ last_call.op = "register_alias_usage"
    /\ AbsPath(last_call.file) \notin DOMAIN tracker.file_dependencies
    /\ DOMAIN tracker.file_dependencies # {}

\* register_anchor sets the entry of its anchor name and nothing else.
RegisterAnchorFrame ==
    (pc = "calls" /\ last_call'.op = "register_anchor")
        => LET al == tracker.anchor_locations
               al1 == tracker'.anchor_locations
               n == last_call'.name
           IN  /\ tracker'.file_dependencies = tracker.file_dependencies
               /\ tracker'.keys = tracker.keys
               /\ DOMAIN al1 = DOMAIN al \cup {n}
               /\ al1[n] = AbsPath(last_call'.file)
               /\ \A m \in DOMAIN al \ {n} : al1[m] = al[m]

\* register_alias_usage leaves anchor_locations alone, and the whole tracker when
\* the anchor is not registered or is owned by the using file.
RegisterAliasUsageFrame ==
    (pc = "calls" /\ last_call'.op = "register_alias_usage")
        => LET al == tracker.anchor_locations
               n == last_call'.name
           IN  /\ tracker'.anchor_locations = al
               /\ (n \notin DOMAIN al \/ al[n] = AbsPath(last_call'.file))
                     => tracker' = tracker

\* C29: register_anchor changes only the entry of the given anchor name in
\* anchor_locations and no edge; register_alias_usage never changes
\* anchor_locations, and changes nothing at all for an anchor that is not
\* registered or that the using file owns.
C29_RegistryFrame == [][RegisterAnchorFrame]_vars /\ [][RegisterAliasUsageFrame]_vars

\* C29 witness: the latest call registered an anchor, and an edge recorded
\* earlier still points to a file that owns no anchor any more.
C29_Witness ==
    /\ last_call.op = "register_anchor"
    /\ \E f \in DOMAIN tracker.file_dependencies :
         \E d \in tracker.file_dependencies[f] : d \notin Range(tracker.anchor_locations)

\* No file occurs twice in the sequence.
NoRepeat(q) == \A i, j \in 1..Len(q) : i # j => q[i] # q[j]

\* Each consecutive pair of the sequence is an edge of file_dependencies.
ChainOfEdges(q) == \A i \in 1..(Len(q) - 1) : q[i + 1] \in DepsOf(tracker, q[i])

\* C25: the sequence reported with the circular-dependency error starts and ends
\* with the same file, repeats no other file, and each consecutive pair of it is
\* an edge of file_dependencies.
C25_CycleReport ==
    (pc = "failed" /\ err.kind = "circular_dependency")
        => LET c == err.detail
           IN  /\ Len(c) >= 2
               /\ c[1] = c[Len(c)]
               /\ NoRepeat(SubSeq(c, 1, Len(c) - 1))
               /\ ChainOfEdges(c)

\* C25 witness: the error was raised with a path of three files whose first file
\* is not on the cycle, so the report is shorter than the path.
C25_Witness ==
    /\ pc = "failed"
    /\ err.kind = "circular_dependency"
    /\ Len(path) = 3
    /\ Len(err.detail) = 3

\* A step that appends a file to the path appends one not visited before.
ExpandsUnvisited ==
    (Len(path') > Len(path)) => path'[Len(path')] \notin visited

ValidationOver == pc \in {"validated", "failed"}

\* C27: _validate_dependencies terminates on every dependency graph: a file is
\* appended to the path only while it is not in the visited set, hence at most
\* once, and a validation that started ends with an error or returns.
C27_ValidationTerminates ==
    /\ [][ExpandsUnvisited]_vars
    /\ (pc = "validate") ~> ValidationOver

\* C27 witness: the validation returned after visiting all three files, one of
\* them a dependency of the two others.
C27_Witness ==
    /\ pc = "validated"
    /\ visited = Files
    /\ \E f \in Files : \A g \in Files \ {f} : f \in DepsOf(tracker, g)

\* C28: during _validate_dependencies the path holds no file twice, every file on
\* it is in the visited set, each consecutive pair on it is an edge of
\* file_dependencies, it is as long as the recursion is deep, and it is empty
\* whenever a top-level call of check_circular has returned.
C28_PathInvariant ==
    (pc \in {"dfs", "validated", "failed"})
        => /\ NoRepeat(path)
           /\ SeqElems(path) \subseteq visited
           /\ ChainOfEdges(path)
           /\ (pc = "dfs") => Len(frames) = Len(path)
           /\ (pc = "validated" \/ (pc = "dfs" /\ frames = <<>>)) => path = <<>>

\* C28 witness: a top-level call has returned, with the path empty again, and a
\* later one has put its file on the path, all three files being visited.
C28_Witness ==
    /\ pc = "dfs"
    /\ Len(path) = 1
    /\ outer > 2
    /\ visited = Files

\* The alias events of a mapped section whose anchor is defined in a section
\* that no output file lists.
UnmappedOwnerAliases ==
    {n \in 1..Len(events) :
        /\ events[n].type = "Alias"
        /\ AliasDefinedBefore(events, n)
        /\ owner[n] \in DOMAIN section_to_file
        /\ owner[DefinitionOf(events, n)] \notin DOMAIN section_to_file}

\* C22: a document in which a mapped section uses an anchor defined in a section
\* that is assigned to no output file never passes the validation.
C22_UnmappedAnchorOwnerIsFatal ==
    UnmappedOwnerAliases # {} => pc \notin {"validated", "split", "pass2", "done"}

\* The files the section mapping writes to.
OutputFilesOfMapping == Range(section_to_file)

\* C23: in every state of the analysis, the files anchors are registered for and
\* both ends of every edge of file_dependencies are output files of the section
\* mapping, and the run never fails with the 'Dependency points to non-existent
\* file' assertion.
C23_EdgesWithinOutputFiles ==
    /\ Range(tracker.anchor_locations) \subseteq OutputFilesOfMapping
    /\ DOMAIN tracker.file_dependencies \subseteq OutputFilesOfMapping
    /\ UNION Range(tracker.file_dependencies) \subseteq OutputFilesOfMapping
    /\ err.kind # "dependency_nonexistent"
    /\ (pc = "dfs" /\ frames = <<>> /\ outer > Len(tracker.keys))
          => DanglingTargets(tracker, section_to_file) = {}

\* C23 witness: the validation passed its last assertion with an edge recorded,
\* in a document that has a section no output file lists.
C23_Witness ==
    /\ pc = "validated"
    /\ tracker.keys # <<>>
    /\ \E n \in 1..Len(events) : owner[n] \in MappedNames \ DOMAIN section_to_file

\* The start events still open after the first n events, innermost last; ok is
\* FALSE once an end event found no start of its kind innermost.
RECURSIVE OpenAfter(_, _)
OpenAfter(evs, n) ==
    IF n = 0 THEN [ok |-> TRUE, stack |-> <<>>]
    ELSE LET b == OpenAfter(evs, n - 1)
             t == evs[n].type
         IN  IF ~b.ok THEN b
             ELSE IF t \in {"MappingStart", "SequenceStart"}
             THEN [b EXCEPT !.stack = Append(@, t)]
             ELSE IF t \in {"MappingEnd", "SequenceEnd"}
             THEN IF b.stack # <<>>
                     /\ b.stack[Len(b.stack)] = (IF t = "MappingEnd" THEN "MappingStart"
                                                 ELSE "SequenceStart")
                  THEN [b EXCEPT !.stack = SubSeq(@, 1, Len(@) - 1)]
                  ELSE [b EXCEPT !.ok = FALSE]
             ELSE b

\* Every start event has its end event, and every end event its start.
WellNested(evs) ==
    LET r == OpenAfter(evs, Len(evs)) IN r.ok /\ r.stack = <<>>

C30_AnchorsFileSurvivesSplit ==
    (split_run.pc = "done")
        => /\ AnchorsName \in DOMAIN fs.dir
           /\ fs.dir[AnchorsName] = AnchorsFileContent(split_run.anchors, split_run.aliases)
           /\ AfterAnchorCheck([IdleCombiner EXCEPT !.pc = "start"], fs).pc # "returned"

====
